---- MODULE Spec2Model ----
(***************************************************************************)
(* Model of ssd/build_engine.py: main() and the graph surgery of           *)
(* add_plugin() on a frozen SSD detection graph.                           *)
(*                                                                         *)
(* A graph is the ordered node list of a GraphDef.  A node is a record     *)
(* [name, op, input, attrs]; input is the ordered list of input reference  *)
(* strings, attrs the ordered list of <<key, value>> pairs (values kept as *)
(* the text of the Python literal).  The graphsurgeon operations that      *)
(* add_plugin calls (remove, forward_inputs, collapse_namespaces, append,  *)
(* the find_* queries and the graph_outputs analysis) are modelled by what *)
(* they do to the node list.  Input references in the modelled graphs are  *)
(* plain node names, plus the tensor name 'image_tensor:0'; control inputs *)
(* ('^name') do not occur.                                                 *)
(***************************************************************************)
EXTENDS Naturals, Sequences, FiniteSets, TLC

VARIABLES
    pc,             \* the statement of main() / add_plugin() to run next
    graph,          \* the node list of the DynamicGraph
    graph_outputs,  \* graph.graph_outputs as last analysed (node names)
    plugins,        \* the plugin nodes add_plugin has created
    trt_version,    \* trt.__version__
    model,          \* args.model
    lib_loaded,     \* whether libflattenconcat.so was loaded
    uff_written,    \* whether the UFF file (spec['tmp_uff']) was written
    bin_written,    \* whether the engine file (spec['output_bin']) was written
    post_collapse,  \* history: graph and outputs as collapse_namespaces left them
    corrections,    \* history: number of corrective removals of the outputs
    frozen,         \* history: the node list loaded from spec['input_pb']
    passes          \* history: the statements of add_plugin run so far

vars == <<pc, graph, graph_outputs, plugins, trt_version, model,
          lib_loaded, uff_written, bin_written, post_collapse, corrections,
          frozen, passes>>

\* Longest chain of extra consumers downstream of the Postprocessor namespace
\* in the input graphs.
MaxChain == 2

(***************************************************************************)
(* Sequence helpers                                                        *)
(***************************************************************************)
Range(s) == {s[i] : i \in 1..Len(s)}

RECURSIVE FlatMap(_, _)
\* Concatenation of Op(s[i]) over the list s; Op is given as a function.
FlatMap(f, s) == IF s = <<>> THEN <<>> ELSE f[Head(s)] \o FlatMap(f, Tail(s))

RECURSIVE RemoveFirst(_, _)
\* Python list.remove(x): drops the first occurrence of x.
RemoveFirst(s, x) ==
    IF s = <<>> THEN <<>>
    ELSE IF Head(s) = x THEN Tail(s)
    ELSE <<Head(s)>> \o RemoveFirst(Tail(s), x)

\* Python list.insert(i, x) for a 0-based index i <= len.
InsertAt(s, i, x) == SubSeq(s, 1, i) \o <<x>> \o SubSeq(s, i + 1, Len(s))

\* Python del s[i] for a 0-based index i.
DeleteAt(s, i) == SubSeq(s, 1, i) \o SubSeq(s, i + 2, Len(s))

(***************************************************************************)
(* Names.  str.split('/') on the names that occur in the modelled graphs.  *)
(***************************************************************************)
Split(name) ==
    CASE name = "Preprocessor/sub" -> <<"Preprocessor", "sub">>
      [] name = "Preprocessor/map/TensorArrayStack_1/TensorArrayGatherV3" ->
             <<"Preprocessor", "map", "TensorArrayStack_1", "TensorArrayGatherV3">>
      [] name = "FeatureExtractor/Equal" -> <<"FeatureExtractor", "Equal">>
      [] name = "FeatureExtractor/Assert" -> <<"FeatureExtractor", "Assert">>
      [] name = "FeatureExtractor/conv" -> <<"FeatureExtractor", "conv">>
      [] name = "FeatureExtractor/bn" -> <<"FeatureExtractor", "bn">>
      [] name = "FeatureExtractor/identity" -> <<"FeatureExtractor", "identity">>
      [] name = "FeatureExtractor/add" -> <<"FeatureExtractor", "add">>
      [] name = "FeatureExtractor/Shape" -> <<"FeatureExtractor", "Shape">>
      [] name = "BoxPredictor/loc" -> <<"BoxPredictor", "loc">>
      [] name = "BoxPredictor/conf" -> <<"BoxPredictor", "conf">>
      [] name = "MultipleGridAnchorGenerator/Range" ->
             <<"MultipleGridAnchorGenerator", "Range">>
      [] name = "MultipleGridAnchorGenerator/Concatenate/concat" ->
             <<"MultipleGridAnchorGenerator", "Concatenate", "concat">>
      [] name = "Concatenate/concat" -> <<"Concatenate", "concat">>
      [] name = "Postprocessor/Decode" -> <<"Postprocessor", "Decode">>
      [] name = "MultipleGridAnchorGenerator/Concatenate" ->
             <<"MultipleGridAnchorGenerator", "Concatenate">>
      [] OTHER -> <<name>>

\* re.match(pattern, name) for a literal pattern: the name starts with it.
ReMatch(pattern, name) ==
    \/ name = pattern
    \/ pattern = "Squeeze" /\ name \in {"Squeeze_1", "Squeeze/Squeeze"}

(***************************************************************************)
(* Nodes                                                                   *)
(***************************************************************************)
\* gs.create_node / gs.create_plugin_node: a node with no inputs.
create_node(name, op, attrs) ==
    [name |-> name, op |-> op, input |-> <<>>, attrs |-> attrs]

\* A node of the frozen graph, with its inputs.
Nd(name, op, input) ==
    [name |-> name, op |-> op, input |-> input, attrs |-> <<>>]

\* gs.update_node(node, op=...): the op tag changes, nothing else.
update_node(node, op) == [node EXCEPT !.op = op]

AttrOf(node, key) ==
    LET hits == SelectSeq(node.attrs, LAMBDA kv : kv[1] = key)
    IN  IF hits = <<>> THEN "absent" ELSE hits[1][2]

AttrKeys(node) == {node.attrs[i][1] : i \in 1..Len(node.attrs)}

(***************************************************************************)
(* StaticGraph queries and analysis                                        *)
(***************************************************************************)
NodeNames(g) == {g[i].name : i \in 1..Len(g)}

find_nodes_by_op(g, op) == SelectSeq(g, LAMBDA n : n.op = op)

find_nodes_by_name(g, name) == SelectSeq(g, LAMBDA n : n.name = name)

find_nodes_by_path(g, path) == SelectSeq(g, LAMBDA n : n.name = path)

NamesOf(nodes) == [i \in 1..Len(nodes) |-> nodes[i].name]

\* node_outputs[name]: the nodes that list `name` among their inputs.
node_outputs(g, name) == SelectSeq(g, LAMBDA n : name \in Range(n.input))

\* Ops that the graph analysis never reports as a graph output.
NonOutputOps == {"Const", "Assign", "NoOp", "Placeholder", "Assert"}

\* The graph_outputs analysis: the names, in graph order, of the nodes that
\* are inputs of no node and whose op is not one of NonOutputOps.
AnalyseOutputs(g) ==
    NamesOf(SelectSeq(g, LAMBDA n : /\ node_outputs(g, n.name) = <<>>
                                    /\ n.op \notin NonOutputOps))

\* find_node_inputs_by_name(node, name): the inputs of `node` whose name
\* matches the pattern, as names.
find_node_inputs_by_name(node, name) ==
    SelectSeq(node.input, LAMBDA r : ReMatch(name, r))

(***************************************************************************)
(* DynamicGraph.remove                                                     *)
(***************************************************************************)
RECURSIVE find_unused_nodes_on_removal(_, _)
\* _find_unused_nodes_on_removal: the nodes to remove plus, recursively,
\* every input node all of whose consumers are being removed.
find_unused_nodes_on_removal(g, names) ==
    LET hanging == {g[i].name : i \in 1..Len(g)} \ names
        more == {m \in hanging :
                    LET outs == node_outputs(g, m)
                    IN  /\ outs # <<>>
                        /\ \A j \in 1..Len(outs) : outs[j].name \in names}
    IN  IF more = {} THEN names
        ELSE find_unused_nodes_on_removal(g, names \cup more)

\* _remove_impl: the named nodes are deleted and every reference to one of
\* them is deleted from the inputs of the nodes that stay.
remove_impl(g, names) ==
    LET keep == SelectSeq(g, LAMBDA n : n.name \notin names)
    IN  [i \in 1..Len(keep) |->
            [keep[i] EXCEPT !.input =
                SelectSeq(keep[i].input, LAMBDA r : r \notin names)]]

\* graph.remove(nodes, remove_exclusive_dependencies)
remove(g, names, remove_exclusive_dependencies) ==
    remove_impl(g, IF remove_exclusive_dependencies
                   THEN find_unused_nodes_on_removal(g, names)
                   ELSE names)

(***************************************************************************)
(* DynamicGraph.forward_inputs                                             *)
(***************************************************************************)
RECURSIVE ResolveList(_, _, _)
\* One pass of Python's `for input_name in lst` over a list that the loop
\* body changes: a forwarded name found at position i (0-based) has its own
\* replacements appended to the end and its first occurrence removed.
ResolveList(lst, i, repl) ==
    IF i >= Len(lst) THEN lst
    ELSE LET e == lst[i + 1]
         IN  IF e \in DOMAIN repl
             THEN ResolveList(RemoveFirst(lst \o repl[e], e), i + 1, repl)
             ELSE ResolveList(lst, i + 1, repl)

RECURSIVE ResolveAll(_, _)
\* generate_input_replacements: the forwarded nodes' input lists, with the
\* forwarded names inside them resolved in graph order.
ResolveAll(order, repl) ==
    IF order = <<>> THEN repl
    ELSE LET n == Head(order)
         IN  ResolveAll(Tail(order),
                        [repl EXCEPT ![n] = ResolveList(repl[n], 0, repl)])

\* Variant of forward_inputs that forwards only the first input of each
\* deleted node.
forward_inputs_FirstOnly(g, names) ==
    LET sub == [r \in UNION {Range(g[i].input) : i \in 1..Len(g)} |->
                   IF r \in names
                   THEN SubSeq((CHOOSE n \in Range(g) : n.name = r).input, 1, 1)
                   ELSE <<r>>]
        keep == SelectSeq(g, LAMBDA n : n.name \notin names)
    IN  [i \in 1..Len(keep) |->
            [keep[i] EXCEPT !.input = FlatMap(sub, keep[i].input)]]

\* forward_inputs(nodes): each named node is deleted, and every reference to
\* it in another node's inputs is replaced, in place, by all of the deleted
\* node's (resolved) inputs.
forward_inputs(g, names) ==
    LET fw == SelectSeq(g, LAMBDA n : n.name \in names)
        shallow == [m \in {fw[i].name : i \in 1..Len(fw)} |->
                       (CHOOSE n \in Range(fw) : n.name = m).input]
        repl == ResolveAll(NamesOf(fw), shallow)
        sub == [r \in UNION {Range(g[i].input) : i \in 1..Len(g)} |->
                   IF r \in DOMAIN repl THEN repl[r] ELSE <<r>>]
        keep == SelectSeq(g, LAMBDA n : n.name \notin names)
    IN  [i \in 1..Len(keep) |->
            [keep[i] EXCEPT !.input = FlatMap(sub, keep[i].input)]]

(***************************************************************************)
(* DynamicGraph.collapse_namespaces                                        *)
(***************************************************************************)
\* namespace_plugin_map, in dictionary order: <<namespace, plugin node name>>.
namespace_plugin_map ==
    << <<"MultipleGridAnchorGenerator", "MultipleGridAnchorGenerator">>,
       <<"Postprocessor", "NMS">>,
       <<"Preprocessor", "Input">>,
       <<"ToFloat", "Input">>,
       <<"Cast", "Input">>,
       <<"image_tensor", "Input">>,
       <<"MultipleGridAnchorGenerator/Concatenate", "concat_priorbox">>,
       <<"Concatenate", "concat_priorbox">>,
       <<"concat", "concat_box_loc">>,
       <<"concat_1", "concat_box_conf">> >>

\* The value get_plugin_node returns for a name in no namespace.
None == "<None>"

\* Whether the first `depth` path components of node_name are the namespace.
NamespaceMatches(namespace, node_name) ==
    LET ns == Split(namespace)
        parts == Split(node_name)
        current_depth == Len(ns)
    IN  SubSeq(parts, 1, IF current_depth < Len(parts) THEN current_depth
                         ELSE Len(parts)) = ns

\* get_plugin_node: the plugin of the deepest namespace that matches.
get_plugin_node(node_name) ==
    LET hits == {i \in 1..Len(namespace_plugin_map) :
                    NamespaceMatches(namespace_plugin_map[i][1], node_name)}
    IN  IF hits = {} THEN None
        ELSE LET best == CHOOSE i \in hits : \A j \in hits :
                             Len(Split(namespace_plugin_map[j][1]))
                                 <= Len(Split(namespace_plugin_map[i][1]))
             IN  namespace_plugin_map[best][2]

RECURSIVE update_inputs(_, _)
\* update_inputs of a node outside every namespace, from 0-based position
\* index: an input inside a namespace is replaced by the plugin's name, or
\* dropped when the plugin is already listed.
update_inputs(input, index) ==
    IF index >= Len(input) THEN input
    ELSE LET input_plugin == get_plugin_node(input[index + 1])
         IN  IF input_plugin # None
             THEN LET rest == DeleteAt(input, index)
                  IN  IF input_plugin \notin Range(rest)
                      THEN update_inputs(InsertAt(rest, index, input_plugin),
                                         index + 1)
                      ELSE update_inputs(rest, index)
             ELSE update_inputs(input, index + 1)

\* add_input with unique_inputs=True.
add_input(plugin_input, input_name) ==
    IF input_name \notin Range(plugin_input)
    THEN Append(plugin_input, input_name) ELSE plugin_input

RECURSIVE update_plugin_inputs(_, _, _)
\* update_plugin_inputs: the inputs of a collapsed node become inputs of its
\* plugin, except those from inside the same plugin.
update_plugin_inputs(plugin_name, plugin_input, input) ==
    IF input = <<>> THEN plugin_input
    ELSE LET input_name == Head(input)
             input_plugin == get_plugin_node(input_name)
             next == IF input_plugin # None /\ input_plugin # plugin_name
                     THEN add_input(plugin_input, input_plugin)
                     ELSE IF input_plugin = None
                     THEN add_input(plugin_input, input_name)
                     ELSE plugin_input
         IN  update_plugin_inputs(plugin_name, next, Tail(input))

RECURSIVE CollapseLoop(_, _, _)
\* The main loop of _collapse_namespaces_impl over the node list: `kept` are
\* the nodes that stay, pin the inputs collected so far for each plugin.
CollapseLoop(nodes, kept, pin) ==
    IF nodes = <<>> THEN [kept |-> kept, pin |-> pin]
    ELSE LET node == Head(nodes)
             plugin_node == get_plugin_node(node.name)
         IN  IF plugin_node # None
             THEN CollapseLoop(Tail(nodes), kept,
                     [pin EXCEPT ![plugin_node] =
                         update_plugin_inputs(plugin_node, @, node.input)])
             ELSE CollapseLoop(Tail(nodes),
                     Append(kept, [node EXCEPT !.input =
                                      update_inputs(node.input, 0)]),
                     pin)

\* graph.collapse_namespaces(namespace_plugin_map): the nodes of every
\* namespace are deleted and the plugin nodes, with the collected inputs,
\* are appended in the order of the map's values.
collapse_namespaces(g, plugin_nodes) ==
    LET names == {plugin_nodes[i].name : i \in 1..Len(plugin_nodes)}
        pin0 == [n \in names |->
                    (CHOOSE p \in Range(plugin_nodes) : p.name = n).input]
        r == CollapseLoop(g, <<>>, pin0)
    IN  r.kept \o [i \in 1..Len(plugin_nodes) |->
                      [plugin_nodes[i] EXCEPT !.input = r.pin[plugin_nodes[i].name]]]

(***************************************************************************)
(* build_engine.py: configuration                                          *)
(***************************************************************************)
\* MODEL_SPECS: the fields add_plugin reads, for three of the models.
MODEL_SPECS ==
    [ssd_mobilenet_v1_coco |->
         [num_classes |-> "91", min_size |-> "0.2", max_size |-> "0.95",
          input_order |-> "[0, 2, 1]"],
     ssd_mobilenet_v2_coco |->
         [num_classes |-> "91", min_size |-> "0.2", max_size |-> "0.95",
          input_order |-> "[1, 0, 2]"],
     ssd_inception_v2_coco |->
         [num_classes |-> "91", min_size |-> "0.2", max_size |-> "0.95",
          input_order |-> "[0, 2, 1]"]]

\* trt.__version__ values of the runs: the version string as its characters.
TrtVersions ==
    { <<"6", ".", "0", ".", "1">>, <<"7", ".", "1", ".", "3">>,
      <<"1", "0", ".", "0", ".", "1">> }

\* The code point order of the characters of a version string.
Ord(c) ==
    CASE c = "." -> 46 [] c = "0" -> 48 [] c = "1" -> 49 [] c = "2" -> 50
      [] c = "3" -> 51 [] c = "4" -> 52 [] c = "5" -> 53 [] c = "6" -> 54
      [] c = "7" -> 55 [] c = "8" -> 56 [] c = "9" -> 57

\* trt.__version__[0] >= '7': a comparison of the first character.
VersionAtLeast7(version) == Ord(version[1]) >= Ord("7")

(***************************************************************************)
(* The frozen graphs given to add_plugin                                   *)
(***************************************************************************)
Features ==
    [castRef : {"image_tensor", "image_tensor:0"},
     preExt : BOOLEAN,
     multiId : BOOLEAN,
     stray : {"none", "feature", "image"},
     squeeze : BOOLEAN,
     gridIn : BOOLEAN,
     chain : 0..MaxChain,
     anchors : {"none", "shared", "exclusive"}]

ChainName(k) == "post_" \o ToString(k)

\* An SSD detection graph of the given model, in GraphDef (topological)
\* order.  The features choose among the variants found in exported graphs:
\* how the image tensor is referenced, an external constant read by the
\* preprocessor, an Identity with two inputs, a hanging Shape node, the
\* Squeeze in front of the postprocessor, an input of the anchor generator,
\* a chain of nodes consuming the postprocessor, and an 'anchors' output.
FrozenGraph(m, f) ==
    LET concatName == IF m = "ssd_mobilenet_v1_coco"
                      THEN "MultipleGridAnchorGenerator/Concatenate/concat"
                      ELSE "Concatenate/concat"
        opt(b, nodes) == IF b THEN nodes ELSE <<>>
        chainNode(k) == Nd(ChainName(k), "Mul",
                           <<IF k = 1 THEN "Postprocessor/Decode"
                             ELSE ChainName(k - 1)>>)
    IN  << Nd("image_tensor", "Placeholder", <<>>),
           Nd("Cast", "Cast", <<f.castRef>>) >>
        \o opt(f.preExt, << Nd("Const", "Const", <<>>) >>)
        \o << Nd("Preprocessor/sub", "Sub",
                 <<"Cast">> \o opt(f.preExt, <<"Const">>)) >>
        \o opt(m = "ssd_inception_v2_coco",
               << Nd("Preprocessor/map/TensorArrayStack_1/TensorArrayGatherV3",
                     "TensorArrayGatherV3", <<"Preprocessor/sub">>) >>)
        \o << Nd("FeatureExtractor/Equal", "Equal", <<"Preprocessor/sub">>),
              Nd("FeatureExtractor/Assert", "Assert", <<"FeatureExtractor/Equal">>),
              Nd("FeatureExtractor/conv", "Conv2D", <<"Preprocessor/sub">>),
              Nd("FeatureExtractor/bn", "FusedBatchNormV3", <<"FeatureExtractor/conv">>),
              Nd("FeatureExtractor/identity", "Identity",
                 <<"FeatureExtractor/bn">>
                 \o opt(f.multiId, <<"Preprocessor/sub">>)),
              Nd("FeatureExtractor/add", "AddV2",
                 <<"FeatureExtractor/identity", "FeatureExtractor/conv">>) >>
        \o opt(f.stray # "none",
               << Nd("FeatureExtractor/Shape", "Shape",
                     <<IF f.stray = "image" THEN "image_tensor:0"
                       ELSE "FeatureExtractor/add">>) >>)
        \o << Nd("BoxPredictor/loc", "Conv2D", <<"FeatureExtractor/add">>),
              Nd("BoxPredictor/conf", "Conv2D", <<"FeatureExtractor/add">>),
              Nd("concat", "ConcatV2", <<"BoxPredictor/loc">>),
              Nd("concat_1", "ConcatV2", <<"BoxPredictor/conf">>) >>
        \o opt(f.squeeze, << Nd("Squeeze", "Squeeze", <<"concat">>) >>)
        \o << Nd("MultipleGridAnchorGenerator/Range", "Range",
                 opt(f.gridIn, <<"FeatureExtractor/add">>)),
              Nd(concatName, "ConcatV2", <<"MultipleGridAnchorGenerator/Range">>),
              Nd("Postprocessor/Decode", "Reshape",
                 << IF f.squeeze THEN "Squeeze" ELSE "concat",
                    concatName, "concat_1",
                    IF m = "ssd_inception_v2_coco"
                    THEN "Preprocessor/map/TensorArrayStack_1/TensorArrayGatherV3"
                    ELSE "Preprocessor/sub" >>),
              Nd("detection_boxes", "Identity", <<"Postprocessor/Decode">>) >>
        \o [k \in 1..f.chain |-> chainNode(k)]
        \o opt(f.anchors = "exclusive",
               << Nd("anchors_src", "Reshape", <<concatName>>) >>)
        \o opt(f.anchors # "none",
               << Nd("anchors", "Reshape",
                     <<IF f.anchors = "exclusive" THEN "anchors_src"
                       ELSE concatName>>) >>)

(***************************************************************************)
(* add_plugin: the plugin nodes                                            *)
(***************************************************************************)
\* The FlattenConcat_TRT node for the given version test.
FlattenConcat(name, atLeast7) ==
    IF atLeast7
    THEN create_node(name, "FlattenConcat_TRT",
                     << <<"axis", "1">>, <<"ignoreBatch", "0">> >>)
    ELSE create_node(name, "FlattenConcat_TRT", <<>>)

\* The six nodes built at lines 159-219, in the order of the values of
\* namespace_plugin_map (each name once).
CreatePluginNodes(spec, version) ==
    LET Input == create_node("Input", "Placeholder",
                     << <<"shape", "(1, 3, 300, 300)">> >>)
        PriorBox == create_node("MultipleGridAnchorGenerator", "GridAnchor_TRT",
                     << <<"minSize", spec.min_size>>,
                        <<"maxSize", spec.max_size>>,
                        <<"aspectRatios", "[1.0, 2.0, 0.5, 3.0, 0.33]">>,
                        <<"variance", "[0.1, 0.1, 0.2, 0.2]">>,
                        <<"featureMapShapes", "[19, 10, 5, 3, 2, 1]">>,
                        <<"numLayers", "6">> >>)
        NMS == create_node("NMS", "NMS_TRT",
                     << <<"shareLocation", "1">>,
                        <<"varianceEncodedInTarget", "0">>,
                        <<"backgroundLabelId", "0">>,
                        <<"confidenceThreshold", "0.3">>,
                        <<"nmsThreshold", "0.6">>,
                        <<"topK", "100">>,
                        <<"keepTopK", "100">>,
                        <<"numClasses", spec.num_classes>>,
                        <<"inputOrder", spec.input_order>>,
                        <<"confSigmoid", "1">>,
                        <<"isNormalized", "1">> >>)
        concat_priorbox == create_node("concat_priorbox", "ConcatV2",
                     << <<"axis", "2">> >>)
        concat_box_loc == FlattenConcat("concat_box_loc", VersionAtLeast7(version))
        concat_box_conf == FlattenConcat("concat_box_conf", VersionAtLeast7(version))
    IN  <<PriorBox, NMS, Input, concat_priorbox, concat_box_loc, concat_box_conf>>

(***************************************************************************)
(* Helpers on the node list                                                *)
(***************************************************************************)
\* The node with the given name (the first, as find_nodes_by_name(..)[0]).
NodeNamed(g, name) == find_nodes_by_name(g, name)[1]

\* Position of the first node with the given name / op.
IndexOfName(g, name) ==
    CHOOSE i \in 1..Len(g) :
        g[i].name = name /\ \A j \in 1..(i - 1) : g[j].name # name

IndexOfOp(g, op) ==
    CHOOSE i \in 1..Len(g) :
        g[i].op = op /\ \A j \in 1..(i - 1) : g[j].op # op

\* Variant of StripInput that leaves the input list as it is.
StripInput_Keep(g, name, ref) == g

\* node.input.remove(ref) guarded by `if ref in node.input`, on the first
\* node with the given name.
StripInput(g, name, ref) ==
    LET i == IndexOfName(g, name)
    IN  IF ref \in Range(g[i].input)
        THEN [g EXCEPT ![i].input = RemoveFirst(g[i].input, ref)]
        ELSE g

\* replace_addv2 / replace_fusedbnv3: every node of op `from` gets op `to`.
replace_op(g, from, to) ==
    [i \in 1..Len(g) |-> IF g[i].op = from THEN update_node(g[i], to) ELSE g[i]]

\* The constant node np.array([1, 1], dtype=np.float32) of add_anchor_input.
anchor_input ==
    create_node("AnchorInput", "Const", << <<"value", "[1.0, 1.0]">> >>)

\* Variant of add_anchor_input that wires the constant in without
\* appending it to the graph.
add_anchor_input_NoAppend(g) ==
    LET i == IndexOfOp(g, "GridAnchor_TRT")
    IN  [g EXCEPT ![i].input = InsertAt(g[i].input, 0, "AnchorInput")]

\* add_anchor_input: the constant is appended, then wired in as input 0 of
\* the first GridAnchor_TRT node.
add_anchor_input(g) ==
    LET g1 == Append(g, anchor_input)
        i == IndexOfOp(g1, "GridAnchor_TRT")
    IN  [g1 EXCEPT ![i].input = InsertAt(g1[i].input, 0, "AnchorInput")]

(***************************************************************************)
(* The program: main() calling add_plugin(), one action per statement      *)
(***************************************************************************)
NoSnapshot == [graph |-> <<>>, outputs |-> <<>>]

Init ==
    /\ pc = "main"
    /\ model \in DOMAIN MODEL_SPECS
    /\ trt_version \in TrtVersions
    /\ \E f \in Features : graph = FrozenGraph(model, f)
    /\ graph_outputs = AnalyseOutputs(graph)
    /\ plugins = <<>>
    /\ lib_loaded = FALSE
    /\ uff_written = FALSE
    /\ bin_written = FALSE
    /\ post_collapse = NoSnapshot
    /\ corrections = 0
    /\ frozen = graph
    /\ passes = <<>>

\* A DynamicGraph mutator: the node list changes and the analysis is redone.
Mutate(g) ==
    /\ graph' = g
    /\ graph_outputs' = AnalyseOutputs(g)

\* main, lines 270-273: the FlattenConcat library is loaded for TensorRT < 7.
MainInit ==
    /\ pc = "main"
    /\ lib_loaded' = ~VersionAtLeast7(trt_version)
    /\ pc' = "remove_assert"
    /\ UNCHANGED <<graph, graph_outputs, plugins, trt_version, model,
                   uff_written, bin_written, post_collapse, corrections,
                   frozen, passes>>

\* add_plugin, lines 153-154.
RemoveAsserts ==
    /\ pc = "remove_assert"
    /\ Mutate(remove(graph, Range(NamesOf(find_nodes_by_op(graph, "Assert"))),
                     TRUE))
    /\ pc' = "forward_identity"
    /\ passes' = Append(passes, "remove_assert")
    /\ UNCHANGED <<plugins, trt_version, model, lib_loaded, uff_written,
                   bin_written, post_collapse, corrections, frozen>>

\* Variant of ForwardIdentity that looks the nodes up under the op
\* 'identity', which no node has.
ForwardIdentity_WrongOp ==
    /\ pc = "forward_identity"
    /\ Mutate(forward_inputs(graph,
                  Range(NamesOf(find_nodes_by_op(graph, "identity")))))
    /\ pc' = "create_plugins"
    /\ passes' = Append(passes, "forward_identity")
    /\ UNCHANGED <<plugins, trt_version, model, lib_loaded, uff_written,
                   bin_written, post_collapse, corrections, frozen>>

\* add_plugin, lines 156-157.
ForwardIdentity ==
    /\ pc = "forward_identity"
    /\ Mutate(forward_inputs(graph,
                  Range(NamesOf(find_nodes_by_op(graph, "Identity")))))
    /\ pc' = "create_plugins"
    /\ passes' = Append(passes, "forward_identity")
    /\ UNCHANGED <<plugins, trt_version, model, lib_loaded, uff_written,
                   bin_written, post_collapse, corrections, frozen>>

\* add_plugin, lines 159-237.
CreatePlugins ==
    /\ pc = "create_plugins"
    /\ plugins' = CreatePluginNodes(MODEL_SPECS[model], trt_version)
    /\ pc' = "remove_gather"
    /\ passes' = Append(passes, "create_plugins")
    /\ UNCHANGED <<graph, graph_outputs, trt_version, model, lib_loaded,
                   uff_written, bin_written, post_collapse, corrections, frozen>>

\* add_plugin, line 239.
RemoveGather ==
    /\ pc = "remove_gather"
    /\ Mutate(remove(graph,
                  Range(NamesOf(find_nodes_by_path(graph,
                      "Preprocessor/map/TensorArrayStack_1/TensorArrayGatherV3"))),
                  FALSE))
    /\ pc' = "collapse"
    /\ passes' = Append(passes, "remove_gather")
    /\ UNCHANGED <<plugins, trt_version, model, lib_loaded, uff_written,
                   bin_written, post_collapse, corrections, frozen>>

\* add_plugin, line 241.
CollapseNamespaces ==
    /\ pc = "collapse"
    /\ Mutate(collapse_namespaces(graph, plugins))
    /\ post_collapse' = [graph |-> graph', outputs |-> graph_outputs']
    /\ pc' = "replace_addv2"
    /\ passes' = Append(passes, "collapse")
    /\ UNCHANGED <<plugins, trt_version, model, lib_loaded, uff_written,
                   bin_written, corrections, frozen>>

\* add_plugin, line 242: the nodes are updated in place, no new analysis.
ReplaceAddV2 ==
    /\ pc = "replace_addv2"
    /\ graph' = replace_op(graph, "AddV2", "Add")
    /\ pc' = "replace_fusedbnv3"
    /\ passes' = Append(passes, "replace_addv2")
    /\ UNCHANGED <<graph_outputs, plugins, trt_version, model, lib_loaded,
                   uff_written, bin_written, post_collapse, corrections, frozen>>

\* add_plugin, line 243.
ReplaceFusedBNV3 ==
    /\ pc = "replace_fusedbnv3"
    /\ graph' = replace_op(graph, "FusedBatchNormV3", "FusedBatchNorm")
    /\ pc' = "strip"
    /\ passes' = Append(passes, "replace_fusedbnv3")
    /\ UNCHANGED <<graph_outputs, plugins, trt_version, model, lib_loaded,
                   uff_written, bin_written, post_collapse, corrections, frozen>>

\* Variant of StripResidual that strips Input from NMS only.
StripResidual_OnlyNMS ==
    /\ pc = "strip"
    /\ graph' = StripInput(graph, "NMS", "Input")
    /\ pc' = "forward_squeeze"
    /\ passes' = Append(passes, "strip")
    /\ UNCHANGED <<graph_outputs, plugins, trt_version, model, lib_loaded,
                   uff_written, bin_written, post_collapse, corrections, frozen>>

\* add_plugin, lines 245-248: the input lists are edited directly, so
\* graph_outputs keeps the value of the last analysis.
StripResidual ==
    /\ pc = "strip"
    /\ graph' = StripInput(StripInput(graph, "Input", "image_tensor:0"),
                           "NMS", "Input")
    /\ pc' = "forward_squeeze"
    /\ passes' = Append(passes, "strip")
    /\ UNCHANGED <<graph_outputs, plugins, trt_version, model, lib_loaded,
                   uff_written, bin_written, post_collapse, corrections, frozen>>

\* add_plugin, line 250: the Squeeze inputs of graph_outputs[0] are
\* forwarded; graph_outputs[0] of an empty list raises IndexError.
ForwardSqueeze ==
    /\ pc = "forward_squeeze"
    /\ IF graph_outputs = <<>>
       THEN /\ pc' = "raised"
            /\ UNCHANGED <<graph, graph_outputs>>
       ELSE /\ Mutate(forward_inputs(graph,
                  Range(find_node_inputs_by_name(
                            NodeNamed(graph, graph_outputs[1]), "Squeeze"))))
            /\ pc' = "remove_anchors"
    /\ passes' = Append(passes, "forward_squeeze")
    /\ UNCHANGED <<plugins, trt_version, model, lib_loaded, uff_written,
                   bin_written, post_collapse, corrections, frozen>>

\* Variant of RemoveAnchors that never removes the anchors node.
RemoveAnchors_Skip ==
    /\ pc = "remove_anchors"
    /\ pc' = "anchor_input"
    /\ passes' = Append(passes, "remove_anchors")
    /\ UNCHANGED <<graph, graph_outputs, plugins, trt_version, model,
                   lib_loaded, uff_written, bin_written, post_collapse,
                   corrections, frozen>>

\* add_plugin, lines 251-252.
RemoveAnchors ==
    /\ pc = "remove_anchors"
    /\ IF "anchors" \in Range(graph_outputs)
       THEN Mutate(remove(graph, {"anchors"}, FALSE))
       ELSE UNCHANGED <<graph, graph_outputs>>
    /\ pc' = "anchor_input"
    /\ passes' = Append(passes, "remove_anchors")
    /\ UNCHANGED <<plugins, trt_version, model, lib_loaded, uff_written,
                   bin_written, post_collapse, corrections, frozen>>

\* add_plugin, lines 253-254: graph.append analyses the graph before the
\* new constant is wired in.
AddAnchorInput ==
    /\ pc = "anchor_input"
    /\ IF Len(find_nodes_by_op(graph, "GridAnchor_TRT")[1].input) < 1
       THEN /\ graph' = add_anchor_input(graph)
            /\ graph_outputs' = AnalyseOutputs(Append(graph, anchor_input))
       ELSE UNCHANGED <<graph, graph_outputs>>
    /\ pc' = "check_outputs"
    /\ passes' = Append(passes, "anchor_input")
    /\ UNCHANGED <<plugins, trt_version, model, lib_loaded, uff_written,
                   bin_written, post_collapse, corrections, frozen>>

\* Variant of CheckOutputs that returns after the corrective removal without
\* checking the outputs again.
CheckOutputs_NoRecheck ==
    /\ pc = "check_outputs"
    /\ IF "NMS" \notin Range(graph_outputs)
       THEN /\ Mutate(remove(graph, Range(graph_outputs), FALSE))
            /\ corrections' = corrections + 1
       ELSE UNCHANGED <<graph, graph_outputs, corrections>>
    /\ pc' = "returned"
    /\ passes' = Append(passes, "check_outputs")
    /\ UNCHANGED <<plugins, trt_version, model, lib_loaded, uff_written,
                   bin_written, post_collapse, frozen>>

\* add_plugin, lines 255-261: if NMS is not a graph output, the current
\* outputs are removed once and the check is repeated; a second failure
\* raises RuntimeError('bad graph_outputs').
CheckOutputs ==
    /\ pc = "check_outputs"
    /\ IF "NMS" \notin Range(graph_outputs)
       THEN /\ Mutate(remove(graph, Range(graph_outputs), FALSE))
            /\ corrections' = corrections + 1
            /\ pc' = IF "NMS" \notin Range(graph_outputs')
                     THEN "raised" ELSE "returned"
       ELSE /\ pc' = "returned"
            /\ UNCHANGED <<graph, graph_outputs, corrections>>
    /\ passes' = Append(passes, "check_outputs")
    /\ UNCHANGED <<plugins, trt_version, model, lib_loaded, uff_written,
                   bin_written, post_collapse, frozen>>

\* Variant of Export that also runs after add_plugin raised, as if the
\* exception were swallowed.
Export_AfterRaise ==
    /\ pc \in {"returned", "raised"}
    /\ uff_written' = TRUE
    /\ pc' = "exported"
    /\ UNCHANGED <<graph, graph_outputs, plugins, trt_version, model,
                   lib_loaded, bin_written, post_collapse, corrections,
                   frozen, passes>>

\* main, lines 282-287: the graph add_plugin returned is written as UFF.
Export ==
    /\ pc = "returned"
    /\ uff_written' = TRUE
    /\ pc' = "exported"
    /\ UNCHANGED <<graph, graph_outputs, plugins, trt_version, model,
                   lib_loaded, bin_written, post_collapse, corrections,
                   frozen, passes>>

\* main, lines 288-300: the engine is built and written.
BuildEngine ==
    /\ pc = "exported"
    /\ bin_written' = TRUE
    /\ pc' = "done"
    /\ UNCHANGED <<graph, graph_outputs, plugins, trt_version, model,
                   lib_loaded, uff_written, post_collapse, corrections,
                   frozen, passes>>

Next ==
    \/ MainInit
    \/ RemoveAsserts
    \/ ForwardIdentity
    \/ CreatePlugins
    \/ RemoveGather
    \/ CollapseNamespaces
    \/ ReplaceAddV2
    \/ ReplaceFusedBNV3
    \/ StripResidual
    \/ ForwardSqueeze
    \/ RemoveAnchors
    \/ AddAnchorInput
    \/ CheckOutputs
    \/ Export
    \/ BuildEngine

Spec == Init /\ [][Next]_vars

(***************************************************************************)
(* Vocabulary of the properties                                            *)
(***************************************************************************)
\* add_plugin has returned its graph to main.
Returned == pc \in {"returned", "exported", "done"}

\* The node a reference names: 'name:k' names the node 'name'.
Clean(ref) == IF ref = "image_tensor:0" THEN "image_tensor" ELSE ref

\* The references of g that resolve to no node of g, with their holders.
Dangling(g) ==
    UNION {{<<g[i].name, r>> :
               r \in {x \in Range(g[i].input) : Clean(x) \notin NodeNames(g)}} :
           i \in 1..Len(g)}

RECURSIVE MajorOf(_, _)
\* The major version number: the digits of the version before the first '.'.
MajorOf(version, acc) ==
    IF version = <<>> \/ Head(version) = "." THEN acc
    ELSE MajorOf(Tail(version), 10 * acc + (Ord(Head(version)) - Ord("0")))

Major(version) == MajorOf(version, 0)

\* The inputs of the named node of g.
InputsOf(g, name) == NodeNamed(g, name).input

(***************************************************************************)
(* C1                                                                      *)
(***************************************************************************)
\* C1 as stated: whenever add_plugin has returned, the output set holds
\* exactly one node, and that node is NMS.
C1_OutputsExactlyNMS == Returned => graph_outputs = <<"NMS">>

\* C1 as amended: whenever add_plugin has returned, the output set (which is
\* the analysis of the returned graph) is not empty and lists NMS exactly
\* once; other nodes may be listed beside it.
C1_OutputsContainNMS ==
    Returned =>
        /\ graph_outputs = AnalyseOutputs(graph)
        /\ Len(SelectSeq(graph_outputs, LAMBDA o : o = "NMS")) = 1

\* A returned graph whose output set holds NMS and another node.
C1_Witness == Returned /\ Len(graph_outputs) > 1 /\ "NMS" \in Range(graph_outputs)

(***************************************************************************)
(* C2                                                                      *)
(***************************************************************************)
\* C2: at the final check, if NMS is no graph output the nodes listed as
\* outputs are removed, once, and the run raises exactly when NMS is still
\* no output afterwards; if NMS is an output the graph is returned as it
\* is.  No corrective removal happens anywhere else, a run that raised has
\* written neither the UFF file nor the engine file, and a file is written
\* only for a graph with NMS among its outputs.
C2_OneCorrectionThenFatal ==
    /\ [](/\ corrections <= 1
          /\ corrections = 1 => pc \in {"raised", "returned", "exported", "done"}
          /\ (corrections = 1 /\ "NMS" \notin Range(graph_outputs))
                 => pc = "raised"
          /\ pc = "raised" => ~uff_written /\ ~bin_written
          /\ (uff_written \/ bin_written) => "NMS" \in Range(graph_outputs))
    /\ [][(pc = "check_outputs" /\ "NMS" \notin Range(graph_outputs)) =>
             /\ corrections' = corrections + 1
             /\ NodeNames(graph') = NodeNames(graph) \ Range(graph_outputs)
             /\ pc' = IF "NMS" \in Range(graph_outputs') THEN "returned"
                      ELSE "raised"]_vars
    /\ [][(pc = "check_outputs" /\ "NMS" \in Range(graph_outputs)) =>
             /\ pc' = "returned"
             /\ UNCHANGED <<graph, graph_outputs, corrections>>]_vars
    /\ [][pc # "check_outputs" => corrections' = corrections]_vars

\* A run that raised after its one corrective step.
C2_Witness ==
    pc = "raised" /\ corrections = 1 /\ "NMS" \notin Range(graph_outputs)

(***************************************************************************)
(* C3                                                                      *)
(***************************************************************************)
OpsOf(g) == {g[i].op : i \in 1..Len(g)}

\* The statements of add_plugin in source order.
PassOrder ==
    <<"remove_assert", "forward_identity", "create_plugins", "remove_gather",
      "collapse", "replace_addv2", "replace_fusedbnv3", "strip",
      "forward_squeeze", "remove_anchors", "anchor_input", "check_outputs">>

\* C3 as stated: when collapse_namespaces begins, the rewrites of AddV2 and
\* FusedBatchNormV3, the removal of Assert nodes and the elision of Identity
\* nodes have all been done.
C3_RewritesBeforeCollapse ==
    pc = "collapse" =>
        OpsOf(graph) \cap {"AddV2", "FusedBatchNormV3", "Assert", "Identity"} = {}

\* C3 as amended: the statements run in source order; when
\* collapse_namespaces begins the Assert nodes are removed and the Identity
\* nodes elided, while the rewrites of AddV2 and FusedBatchNormV3 have not
\* run yet: they run right after the collapse, and from then on no node has
\* one of these ops; the output check is the last statement before the
\* graph is returned.
C3_PassOrder ==
    /\ passes = SubSeq(PassOrder, 1, Len(passes))
    /\ pc = "collapse" =>
          /\ OpsOf(graph) \cap {"Assert", "Identity"} = {}
          /\ {"replace_addv2", "replace_fusedbnv3"} \cap Range(passes) = {}
          /\ {"remove_assert", "forward_identity"} \subseteq Range(passes)
    /\ "replace_addv2" \in Range(passes) =>
          /\ "collapse" \in Range(passes)
          /\ "AddV2" \notin OpsOf(graph)
    /\ "replace_fusedbnv3" \in Range(passes) =>
          /\ "collapse" \in Range(passes)
          /\ "FusedBatchNormV3" \notin OpsOf(graph)
    /\ Returned => passes = PassOrder

\* collapse_namespaces is about to begin on a graph that still holds AddV2
\* and FusedBatchNormV3 nodes, the Assert and Identity nodes being gone.
C3_Witness ==
    /\ pc = "collapse"
    /\ {"AddV2", "FusedBatchNormV3"} \subseteq OpsOf(graph)
    /\ {"Assert", "Identity"} \subseteq OpsOf(frozen)

(***************************************************************************)
(* C4                                                                      *)
(***************************************************************************)
\* Every reference of the loaded graph resolves.
WellFormedInput == Dangling(frozen) = {}

ImageTensorRefOnlyInInput ==
    \A i \in 1..Len(frozen) :
        "image_tensor:0" \in Range(frozen[i].input)
            => get_plugin_node(frozen[i].name) = "Input"

PriorBoxAfterCollapse ==
    find_nodes_by_op(post_collapse.graph, "GridAnchor_TRT")[1]

\* C5: in the returned graph, a prior-box generator that had no input after
\* the collapse has exactly the input AnchorInput, a Const node of value
\* [1.0, 1.0] that is in the graph; one that had an input keeps its inputs
\* and no AnchorInput node is in the graph.
C5_AnchorInputAdded ==
    Returned =>
        LET PriorBox == find_nodes_by_op(graph, "GridAnchor_TRT")[1]
            consts == find_nodes_by_name(graph, "AnchorInput")
        IN  IF Len(PriorBoxAfterCollapse.input) = 0
            THEN /\ PriorBox.input = <<"AnchorInput">>
                 /\ Len(consts) = 1
                 /\ consts[1].op = "Const"
                 /\ AttrOf(consts[1], "value") = "[1.0, 1.0]"
                 /\ consts[1].input = <<>>
            ELSE /\ PriorBox.input = PriorBoxAfterCollapse.input
                 /\ consts = <<>>

\* A returned graph whose prior-box generator had no input after the
\* collapse.
C5_Witness == Returned /\ Len(PriorBoxAfterCollapse.input) = 0

(***************************************************************************)
(* C6                                                                      *)
(***************************************************************************)
\* The output set after the collapse is {NMS, anchors}.
OutputsWereNMSAndAnchors == Range(post_collapse.outputs) = {"NMS", "anchors"}

\* C6 as stated: if the output set after the collapse is {NMS, anchors},
\* the output set of the returned graph is exactly {NMS}.
C6_AnchorsDroppedExactlyNMS ==
    (Returned /\ OutputsWereNMSAndAnchors) => graph_outputs = <<"NMS">>

\* Every producer of the anchors node had another consumer after the
\* collapse.
AnchorsProducersShared ==
    LET g == post_collapse.graph
    IN  \A r \in Range(InputsOf(g, "anchors")) :
            \E i \in 1..Len(g) : g[i].name # "anchors" /\ r \in Range(g[i].input)

\* C6 as amended: if the output set after the collapse is {NMS, anchors},
\* the returned graph holds no anchors node and its output set contains NMS
\* and not anchors; it is exactly {NMS} if every producer of anchors had
\* another consumer.
C6_AnchorsDropped ==
    (Returned /\ OutputsWereNMSAndAnchors) =>
        /\ "anchors" \notin NodeNames(graph)
        /\ "anchors" \notin Range(graph_outputs)
        /\ "NMS" \in Range(graph_outputs)
        /\ AnchorsProducersShared => graph_outputs = <<"NMS">>

\* A returned graph whose outputs after the collapse were NMS and anchors,
\* the producers of anchors being shared.
C6_Witness ==
    Returned /\ OutputsWereNMSAndAnchors /\ AnchorsProducersShared

(***************************************************************************)
(* C7                                                                      *)
(***************************************************************************)
\* The attribute schema of a FlattenConcat_TRT node for TensorRT 7 or later.
NewSchema(node) ==
    /\ AttrKeys(node) = {"axis", "ignoreBatch"}
    /\ AttrOf(node, "axis") = "1"
    /\ AttrOf(node, "ignoreBatch") = "0"

\* C7: once the plugin nodes are built, concat_box_loc and concat_box_conf
\* carry the schema with axis and ignoreBatch exactly when the major
\* version of TensorRT is 7 or more, and no attribute otherwise.
C7_SchemaMatchesMajorVersion ==
    plugins # <<>> =>
        \A i \in {5, 6} :
            IF Major(trt_version) >= 7 THEN NewSchema(plugins[i])
            ELSE plugins[i].attrs = <<>>

(***************************************************************************)
(* C8                                                                      *)
(***************************************************************************)
\* The Identity nodes of the loaded graph that have more than one input.
MultiProducerIdentities ==
    {frozen[i].name : i \in {j \in 1..Len(frozen) :
         frozen[j].op = "Identity" /\ Len(frozen[j].input) > 1}}

ExpandIdentities(input) ==
    FlatMap([r \in Range(input) |->
                IF r \in NodeNames(frozen) /\ NodeNamed(frozen, r).op = "Identity"
                THEN NodeNamed(frozen, r).input ELSE <<r>>],
            input)

C9_InputHasNoInputs ==
    Returned =>
        /\ InputsOf(graph, "Input") = <<>>
        /\ "Input" \notin Range(InputsOf(graph, "NMS"))

\* C9 as amended: in the returned graph the node Input lists what it listed
\* after the collapse except 'image_tensor:0', and NMS does not list Input;
\* the inputs of NMS are those it listed after the collapse without Input,
\* in the same order, a forwarded Squeeze being replaced by its producer.
C9_ResidualEdgesStripped ==
    Returned =>
        LET old == SelectSeq(InputsOf(post_collapse.graph, "NMS"),
                             LAMBDA r : r # "Input")
            new == InputsOf(graph, "NMS")
        IN  /\ InputsOf(graph, "Input") =
                   SelectSeq(InputsOf(post_collapse.graph, "Input"),
                             LAMBDA r : r # "image_tensor:0")
            /\ "Input" \notin Range(new)
            /\ Len(new) = Len(old)
            /\ \A k \in 1..Len(new) :
                   \/ new[k] = old[k]
                   \/ /\ old[k] = "Squeeze"
                      /\ <<new[k]>> = InputsOf(post_collapse.graph, "Squeeze")

\* A returned graph whose Input node listed 'image_tensor:0' and whose NMS
\* node listed Input after the collapse.
C9_Witness ==
    /\ Returned
    /\ "image_tensor:0" \in Range(InputsOf(post_collapse.graph, "Input"))
    /\ "Input" \in Range(InputsOf(post_collapse.graph, "NMS"))

(***************************************************************************)
(* C10                                                                     *)
(***************************************************************************)
\* C10: in the returned graph no input of NMS is a Squeeze node.
C10_NoSqueezeUpstreamOfNMS ==
    Returned =>
        \A r \in Range(InputsOf(graph, "NMS")) :
            r \in NodeNames(graph) => NodeNamed(graph, r).op # "Squeeze"

====
